---- MODULE Spec2Model ----
(***************************************************************************)
(* Product Availability Editor (src/main.py): a Streamlit script that is  *)
(* re-executed top to bottom on every interaction of a browser session.   *)
(* One action of the model is one script run (page routing, then main_app *)
(* or login_page, including a trailing st.rerun()).  The store is the     *)
(* external "products" table; fetch_data is wrapped by a process-wide     *)
(* read cache shared by all sessions.                                      *)
(***************************************************************************)
EXTENDS Integers, Sequences, FiniteSets, TLC

\* ---------------------------------------------------------------- bounds
MaxTime == 2        \* the clock runs over 0..MaxTime (one unit = 150 seconds)
MaxEdits == 2       \* cell edits made in the data editor over a behaviour
MaxCodecEdits == 1  \* cell edits in the specification of the loader and the codec

\* ------------------------------------------------------ program constants
SessionTimeout == 2             \* timedelta(minutes=5), in units of 150 seconds
CacheTTL == 2                   \* st.cache_data(ttl=300), in units of 150 seconds

Sessions == {"s1"}              \* the browser session slot; NewSession starts a fresh one in it
TrackedFields == <<"available_from", "available_to", "allow_negative">>
TrackedSet == {TrackedFields[i] : i \in 1..Len(TrackedFields)}

\* ------------------------------------------------------------ Python values
None == [tag |-> "None"]
Time(h, m, s) == [tag |-> "time", h |-> h, m |-> m, s |-> s]
Str(chars) == [tag |-> "str", chars |-> chars]

DigitChars == <<"0", "1", "2", "3", "4", "5", "6", "7", "8", "9">>
Fmt2(n) == <<DigitChars[(n \div 10) + 1], DigitChars[(n % 10) + 1]>>
IsDigit(c) == \E d \in 1..10 : DigitChars[d] = c
DigitVal(c) == (CHOOSE d \in 1..10 : DigitChars[d] = c) - 1

\* a format string without the seconds, '%H:%M'
format_time_for_db_NoSeconds(time_obj) ==
    IF time_obj.tag = "time"
    THEN Str(Fmt2(time_obj.h) \o <<":">> \o Fmt2(time_obj.m))
    ELSE None

\* format_time_for_db: 'HH:MM:SS' for a datetime.time, None for anything else
format_time_for_db(time_obj) ==
    IF time_obj.tag = "time"
    THEN Str(Fmt2(time_obj.h) \o <<":">> \o Fmt2(time_obj.m) \o <<":">> \o Fmt2(time_obj.s))
    ELSE None

\* the text before the first ":" of a character sequence, and the rest after it
RECURSIVE Head1(_)
Head1(cs) == IF cs = <<>> \/ Head(cs) = ":" THEN <<>> ELSE <<Head(cs)>> \o Head1(Tail(cs))
Rest1(cs) == SubSeq(cs, Len(Head1(cs)) + 2, Len(cs))
HasColon(cs) == \E i \in 1..Len(cs) : cs[i] = ":"

\* one strptime field: one or two digits
IsNum(cs) == Len(cs) \in {1, 2} /\ \A i \in 1..Len(cs) : IsDigit(cs[i])
NumVal(cs) == IF Len(cs) = 1 THEN DigitVal(cs[1]) ELSE 10 * DigitVal(cs[1]) + DigitVal(cs[2])

\* datetime.strptime(s, "%H:%M:%S").time(), with ValueError/TypeError as "error"
strptime(cs) ==
    IF ~HasColon(cs) THEN "error"
    ELSE LET hh == Head1(cs)
             r1 == Rest1(cs)
         IN IF ~HasColon(r1) THEN "error"
            ELSE LET mm == Head1(r1)
                     ss == Rest1(r1)
                 IN IF IsNum(hh) /\ IsNum(mm) /\ IsNum(ss)
                       /\ NumVal(hh) < 24 /\ NumVal(mm) < 60 /\ NumVal(ss) < 60
                    THEN "ok" ELSE "error"
strptimeValue(cs) ==
    LET hh == Head1(cs)
        r1 == Rest1(cs)
    IN Time(NumVal(hh), NumVal(Head1(r1)), NumVal(Rest1(r1)))

\* format_time_for_editor: None for a falsy value or an unparsable one
format_time_for_editor(time_str_from_db) ==
    IF time_str_from_db.tag # "str" \/ time_str_from_db.chars = <<>> THEN None
    ELSE IF strptime(time_str_from_db.chars) = "ok"
         THEN strptimeValue(time_str_from_db.chars)
         ELSE None

\* astype(bool) without the fillna: a missing value is truthy
AsBool_NoFillna(json) == json # "false"

\* fillna(False).astype(bool) on the JSON value of allow_negative
AsBool(json) == json = "true"
\* bool(...) serialised as JSON in the update payload
BoolJson(b) == IF b THEN "true" ELSE "false"


\* --------------------------------------------------------------- the store
\* rows of the "products" table as the API returns them (JSON): times are
\* 'HH:MM:SS' strings or null, allow_negative is true, false or null
T9 == Time(9, 0, 0)
T10 == Time(10, 30, 0)
EditorTimes == {T10}
InitStore ==
    << [code |-> "A", name |-> "Latte", available_from |-> format_time_for_db(T9),
        available_to |-> None, allow_negative |-> "false"],
       [code |-> "B", name |-> "Mocha", available_from |-> None,
        available_to |-> Str(<<"9", ":", "6", "1">>), allow_negative |-> "null"] >>
Codes == {InitStore[i].code : i \in 1..Len(InitStore)}
ReadOutcomes == {"ok", "error", "nocode"}   \* the select succeeds, raises, or has no 'code' column

EmptyDf == <<>>
Row(r) == [code |-> r.code, name |-> r.name,
           available_from |-> format_time_for_editor(r.available_from),
           available_to |-> format_time_for_editor(r.available_to),
           allow_negative |-> AsBool(r.allow_negative)]

\* fetch_data without its except clause: a failed select reaches the caller
fetch_data_Propagates(rows, outcome) ==
    IF outcome = "error" THEN [raised |-> TRUE, df |-> EmptyDf]
    ELSE IF outcome = "nocode" \/ rows = <<>> THEN [raised |-> FALSE, df |-> EmptyDf]
    ELSE [raised |-> FALSE, df |-> [i \in 1..Len(rows) |-> Row(rows[i])]]

\* the body of fetch_data: every failure ends in "return pd.DataFrame()"
fetch_data(rows, outcome) ==
    IF outcome = "error" THEN [raised |-> FALSE, df |-> EmptyDf]
    ELSE IF outcome = "nocode" \/ rows = <<>> THEN [raised |-> FALSE, df |-> EmptyDf]
    ELSE [raised |-> FALSE, df |-> [i \in 1..Len(rows) |-> Row(rows[i])]]

\* @st.cache_data(ttl=300): a hit returns the cached value, a miss runs the body
NoCache == [present |-> FALSE, at |-> 0, value |-> EmptyDf]
CacheHit(c, t) == c.present /\ t - c.at < CacheTTL
cached_fetch_data(c, rows, outcome, t) ==
    IF CacheHit(c, t) THEN [raised |-> FALSE, df |-> c.value, cache |-> c, read |-> "hit"]
    ELSE LET r == fetch_data(rows, outcome)
         IN [raised |-> r.raised, df |-> r.df, read |-> outcome,
             cache |-> IF r.raised THEN c ELSE [present |-> TRUE, at |-> t, value |-> r.df]]

\* ------------------------------------------------------------ the diff loop
HasCode(df, c) == \E i \in 1..Len(df) : df[i].code = c
Loc(df, c) == df[CHOOSE i \in 1..Len(df) : df[i].code = c]

\* a comparison in which a missing value differs from itself (NaN semantics)
RowChanged_NaN(o, r) ==
    \/ o.available_from # r.available_from \/ o.available_from = None
    \/ o.available_to # r.available_to \/ o.available_to = None
    \/ o.allow_negative # r.allow_negative

RowChanged(o, r) ==
    \/ o.available_from # r.available_from
    \/ o.available_to # r.available_to
    \/ o.allow_negative # r.allow_negative
Update(r) == [code |-> r.code,
              available_from |-> format_time_for_db(r.available_from),
              available_to |-> format_time_for_db(r.available_to),
              allow_negative |-> BoolJson(r.allow_negative)]
\* updates.insert(0, ...): the records come out in reverse order
Append1_Reversed(changed, row, rest) ==
    IF rest.raised \/ ~changed THEN rest
    ELSE [raised |-> FALSE, updates |-> rest.updates \o <<Update(row)>>]

\* updates.append(...) for a changed row, in front of what the later rows give
Append1(changed, row, rest) ==
    IF rest.raised \/ ~changed THEN rest
    ELSE [raised |-> FALSE, updates |-> <<Update(row)>> \o rest.updates]
\* lines 144-164: updates in the iteration order of edited_df; a code with no
\* row in original_indexed makes .loc raise KeyError before anything is written
RECURSIVE BuildUpdates(_, _, _)
BuildUpdates(original, edited, i) ==
    IF i > Len(edited) THEN [raised |-> FALSE, updates |-> <<>>]
    ELSE IF ~HasCode(original, edited[i].code) THEN [raised |-> TRUE, updates |-> <<>>]
    ELSE Append1(RowChanged(Loc(original, edited[i].code), edited[i]), edited[i],
                 BuildUpdates(original, edited, i + 1))

\* ------------------------------------------------------------ the write loop
update_payload(update) == [k \in TrackedSet |-> update[k]]
\* an update that leaves a column alone when the payload holds null for it
StoreUpdate_KeepsNull(rows, payload, code) ==
    [i \in 1..Len(rows) |->
        IF rows[i].code = code
        THEN [f \in DOMAIN rows[i] |->
                IF f \in DOMAIN payload /\ (f = "allow_negative" \/ payload[f] # None)
                THEN payload[f] ELSE rows[i][f]]
        ELSE rows[i]]

\* an update without its .eq("code", ...) filter: every row takes the payload
StoreUpdate_AllRows(rows, payload, code) ==
    [i \in 1..Len(rows) |->
        [f \in DOMAIN rows[i] |-> IF f \in DOMAIN payload THEN payload[f] ELSE rows[i][f]]]

\* supabase.table("products").update(payload).eq("code", code).execute()
StoreUpdate(rows, payload, code) ==
    [i \in 1..Len(rows) |->
        IF rows[i].code = code
        THEN [f \in DOMAIN rows[i] |-> IF f \in DOMAIN payload THEN payload[f] ELSE rows[i][f]]
        ELSE rows[i]]
Call(update, failing) == [code |-> update.code, payload |-> update_payload(update),
                          ok |-> update.code \notin failing]
Called(call, rest) == [rows |-> rest.rows, calls |-> <<call>> \o rest.calls, raised |-> rest.raised]
\* the loop of lines 169-173 inside one try: the first call that raises ends it
RECURSIVE ApplyUpdates(_, _, _, _)
ApplyUpdates(rows, updates, failing, i) ==
    IF i > Len(updates) THEN [rows |-> rows, calls |-> <<>>, raised |-> FALSE]
    ELSE IF updates[i].code \in failing
    THEN [rows |-> rows, calls |-> <<Call(updates[i], failing)>>, raised |-> TRUE]
    ELSE Called(Call(updates[i], failing),
                ApplyUpdates(StoreUpdate(rows, update_payload(updates[i]), updates[i].code),
                             updates, failing, i + 1))

\* ------------------------------------------------------------------- state
VARIABLES
    now,            \* datetime.now(), in units of 150 seconds
    store,          \* rows of the products table
    cache,          \* the st.cache_data entry of fetch_data (shared by all sessions)
    session_state,  \* per session: the auth keys and original_data
    edited_df,      \* per session: what st.data_editor returns (EmptyDf: not rendered)
    page,           \* per session: the page the last script run rendered
    edits,          \* number of cell edits made so far (and of writes by other actors)
    last            \* log of the last script run(s): guard, steps, update calls, toast

vars == <<now, store, cache, session_state, edited_df, page, edits, last>>

AuthKeys == {"logged_in", "login_time", "username"}
DatetimeMin == 0 - 1000000
Usernames == {"admin", "guest"}
Passwords == {"admin1234", "letmein"}

InitSession == [keys |-> {}, login_time |-> 0, username |-> "",
                has_original |-> FALSE, original_data |-> EmptyDf]
\* a key list without 'username'
DeleteKeys_LeavesUsername(ss) == [ss EXCEPT !.keys = ss.keys \cap {"username"}, !.login_time = 0]

\* "for key in [...]: if key in st.session_state: del st.session_state[key]"
DeleteKeys(ss) == [ss EXCEPT !.keys = {}, !.login_time = 0, !.username = ""]

\* an expiry test with the boundary on the wrong side
SessionIsActive_Inclusive(ss, t) ==
    /\ "logged_in" \in ss.keys
    /\ t - (IF "login_time" \in ss.keys THEN ss.login_time ELSE DatetimeMin) <= SessionTimeout

\* page routing, lines 221-231
SessionIsActive(ss, t) ==
    /\ "logged_in" \in ss.keys
    /\ t - (IF "login_time" \in ss.keys THEN ss.login_time ELSE DatetimeMin) < SessionTimeout
Routing(ss, t) ==
    IF "logged_in" \in ss.keys
    THEN IF SessionIsActive(ss, t)
         THEN [active |-> TRUE, verdict |-> "active", ss |-> ss]
         ELSE [active |-> FALSE, verdict |-> "expired", ss |-> DeleteKeys(ss)]
    ELSE [active |-> FALSE, verdict |-> "logged_out", ss |-> ss]

Toast(kind, counts) == [kind |-> kind, counts |-> counts, codes |-> {}]
NoToast == Toast("none", {})
NoSave == [baseline |-> EmptyDf, edited |-> EmptyDf, stored |-> <<>>, failing |-> {},
           updates |-> <<>>, calls |-> <<>>]
NoInput == [outcome |-> "ok", failing |-> {}, row |-> 1, field |-> "allow_negative",
            value |-> None, username |-> "", password |-> ""]
\* what one page function leaves behind: the new state and what it did
Result(w, steps, save, toast, rerun, raised, read) ==
    [w |-> w, steps |-> steps, save |-> save, toast |-> toast, rerun |-> rerun,
     raised |-> raised, read |-> read]

SaveLog(w, inp, d, calls) ==
    [baseline |-> w.ss.original_data, edited |-> w.ed, stored |-> w.store,
     failing |-> {c \in inp.failing : \E i \in 1..Len(d.updates) : d.updates[i].code = c},
     updates |-> d.updates, calls |-> calls]

\* line 179 left out: the baseline stays as it was after the writes
ReplaceBaseline_Skipped(w) == w

\* line 179: st.session_state.original_data = edited_df.copy()
ReplaceBaseline(w) == [w EXCEPT !.ss.original_data = w.ed]

\* line 179 moved out of the try: the baseline is replaced after a failed loop too
SaveApplied_ReplacesOnError(w, inp, d, a) ==
    IF a.raised
    THEN Result(ReplaceBaseline([w EXCEPT !.store = a.rows]), {"diff", "write"},
                SaveLog(w, inp, d, a.calls), Toast("error", {}), FALSE, FALSE, "none")
    ELSE Result(ReplaceBaseline([w EXCEPT !.store = a.rows]), {"diff", "write", "replace"},
                SaveLog(w, inp, d, a.calls), Toast("saved", {Len(d.updates)}),
                FALSE, FALSE, "none")

\* lines 166-185: the write loop in its try, or "No changes to save."
SaveApplied(w, inp, d, a) ==
    IF a.raised
    THEN Result([w EXCEPT !.store = a.rows], {"diff", "write"}, SaveLog(w, inp, d, a.calls),
                Toast("error", {}), FALSE, FALSE, "none")
    ELSE Result(ReplaceBaseline([w EXCEPT !.store = a.rows]), {"diff", "write", "replace"},
                SaveLog(w, inp, d, a.calls), Toast("saved", {Len(d.updates)}),
                FALSE, FALSE, "none")
SaveDiffed(w, inp, d) ==
    IF d.raised
    THEN Result(w, {"diff"}, SaveLog(w, inp, d, <<>>), NoToast, FALSE, TRUE, "none")
    ELSE IF d.updates = <<>>
    THEN Result(w, {"diff"}, SaveLog(w, inp, d, <<>>), Toast("nochange", {}),
                FALSE, FALSE, "none")
    ELSE SaveApplied(w, inp, d, ApplyUpdates(w.store, d.updates, inp.failing, 1))
\* the Save Changes branch, lines 143-185
SaveChanges(w, inp) == SaveDiffed(w, inp, BuildUpdates(w.ss.original_data, w.ed, 1))

\* st.data_editor, lines 125-138: the baseline with the operator's cell edits
data_editor(w, click, inp) ==
    IF click = "edit"
    THEN [(IF w.ed = EmptyDf THEN w.ss.original_data ELSE w.ed)
             EXCEPT ![inp.row][inp.field] = inp.value]
    ELSE IF w.ed = EmptyDf THEN w.ss.original_data ELSE w.ed
WithLoad(r, steps, read) == [r EXCEPT !.steps = steps \cup r.steps, !.read = read]
\* lines 140-194: the Save Changes and Logout buttons
Buttons(w, click, inp, steps, read) ==
    IF click = "save" THEN WithLoad(SaveChanges(w, inp), steps, read)
    ELSE IF click = "logout"
    THEN Result([w EXCEPT !.ss = DeleteKeys(w.ss)], steps, NoSave, Toast("logout", {}),
                TRUE, FALSE, read)
    ELSE Result(w, steps, NoSave, NoToast, FALSE, FALSE, read)
\* lines 107-138: nothing but a warning for an empty baseline, else the editor
Render(w, click, inp, steps, read) ==
    IF w.ss.original_data = EmptyDf
    THEN Result([w EXCEPT !.pg = "nodata", !.ed = EmptyDf], steps, NoSave,
                Toast("nodata", {}), FALSE, FALSE, read)
    ELSE Buttons([w EXCEPT !.ed = data_editor(w, click, inp), !.pg = "main"],
                 click, inp, steps, read)
\* lines 104-105 when original_data is not in the session state
Loaded(w, click, inp, f) ==
    IF f.raised
    THEN Result([w EXCEPT !.pg = "error"], {"load"}, NoSave, NoToast, FALSE, TRUE, f.read)
    ELSE Render([w EXCEPT !.ss.has_original = TRUE, !.ss.original_data = f.df,
                          !.cache = f.cache],
                click, inp, {"load"}, f.read)
\* main_app without the test of line 104: every run fetches the baseline again
main_app_AlwaysLoads(w, click, inp, t) ==
    Loaded(w, click, inp, cached_fetch_data(w.cache, w.store, inp.outcome, t))

\* main_app, lines 101-194
main_app(w, click, inp, t) ==
    IF w.ss.has_original THEN Render(w, click, inp, {}, "none")
    ELSE Loaded(w, click, inp, cached_fetch_data(w.cache, w.store, inp.outcome, t))

\* a check of the username alone
CredentialsOk_UsernameOnly(inp) == inp.username = "admin"

\* line 209: if username == "admin" and password == "admin1234"
CredentialsOk(inp) == inp.username = "admin" /\ inp.password = "admin1234"

\* login_page, lines 198-218; the data editor is not rendered, so its widget state is dropped
login_page(w, click, inp, t) ==
    IF click = "login"
    THEN IF CredentialsOk(inp)
         THEN Result([w EXCEPT !.pg = "login", !.ed = EmptyDf, !.ss.keys = AuthKeys,
                               !.ss.login_time = t, !.ss.username = inp.username],
                     {}, NoSave, Toast("login_ok", {}), TRUE, FALSE, "none")
         ELSE Result([w EXCEPT !.pg = "login", !.ed = EmptyDf], {}, NoSave,
                     Toast("login_bad", {}), FALSE, FALSE, "none")
    ELSE Result([w EXCEPT !.pg = "login", !.ed = EmptyDf], {}, NoSave, NoToast,
                FALSE, FALSE, "none")

\* a Save click that is served whatever the routing found
RunsMainApp_SaveUnguarded(g, click) == g.active \/ click = "save"

\* lines 233-236: "if session_is_active: main_app() else: login_page()"
RunsMainApp(g, click) == g.active

RunLog(g, r) ==
    [w |-> r.w, save |-> r.save, toast |-> r.toast, rerun |-> r.rerun, raised |-> r.raised,
     run |-> [guard |-> g.verdict, page |-> r.w.pg, steps |-> r.steps, read |-> r.read]]
Routed(g, w, click, inp, t) ==
    RunLog(g, IF RunsMainApp(g, click)
              THEN main_app([w EXCEPT !.ss = g.ss], click, inp, t)
              ELSE login_page([w EXCEPT !.ss = g.ss], click, inp, t))
\* one execution of the script: routing first, then the page it selects
Execute(w, click, inp, t) == Routed(Routing(w.ss, t), w, click, inp, t)

Both(r1, r2) ==
    [w |-> r2.w, save |-> r1.save, toast |-> r1.toast, raised |-> r2.raised,
     runs |-> <<r1.run, r2.run>>]
Rerun(r1, inp, t) ==
    IF r1.rerun THEN Both(r1, Execute(r1.w, "none", inp, t))
    ELSE [w |-> r1.w, save |-> r1.save, toast |-> r1.toast, raised |-> r1.raised,
          runs |-> <<r1.run>>]
\* an interaction: the script run it triggers, and a second one after st.rerun()
Script(w, click, inp, t) == Rerun(Execute(w, click, inp, t), inp, t)

World(s) == [ss |-> session_state[s], ed |-> edited_df[s], pg |-> page[s],
             store |-> store, cache |-> cache]

NoCreds == [username |-> "", password |-> ""]
Creds(click, inp) ==
    IF click = "login" THEN [username |-> inp.username, password |-> inp.password] ELSE NoCreds
Commit(s, click, inp, r) ==
    /\ session_state' = [session_state EXCEPT ![s] = r.w.ss]
    /\ edited_df' = [edited_df EXCEPT ![s] = r.w.ed]
    /\ page' = [page EXCEPT ![s] = r.w.pg]
    /\ store' = r.w.store
    /\ cache' = r.w.cache
    /\ last' = [sess |-> s, click |-> click, creds |-> Creds(click, inp), runs |-> r.runs,
                save |-> r.save, toast |-> r.toast, raised |-> r.raised]
    /\ now' = now
Interact(s, click, inp) == Commit(s, click, inp, Script(World(s), click, inp, now))

\* ----------------------------------------------------------------- actions
Init ==
    /\ now = 0
    /\ store = InitStore
    /\ cache = NoCache
    /\ session_state = [s \in Sessions |-> InitSession]
    /\ edited_df = [s \in Sessions |-> EmptyDf]
    /\ page = [s \in Sessions |-> "login"]
    /\ edits = 0
    /\ last = [sess |-> "s1", click |-> "none", creds |-> NoCreds,
               runs |-> <<[guard |-> "logged_out", page |-> "login", steps |-> {}, read |-> "none"]>>,
               save |-> NoSave, toast |-> NoToast, raised |-> FALSE]

Tick ==
    /\ now < MaxTime
    /\ now' = now + 1
    /\ UNCHANGED <<store, cache, session_state, edited_df, page, edits, last>>

\* any widget interaction that only reruns the script
Refresh(s) ==
    /\ Interact(s, "none", NoInput)
    /\ UNCHANGED edits

Login(s) ==
    /\ page[s] = "login"
    /\ \E u \in Usernames, p \in Passwords, o \in ReadOutcomes :
          Interact(s, "login", [NoInput EXCEPT !.username = u, !.password = p, !.outcome = o])
    /\ UNCHANGED edits

CellValues(f) == IF f = "allow_negative" THEN BOOLEAN ELSE EditorTimes \cup {None}

Edit(s) ==
    /\ page[s] = "main"
    /\ edits < MaxEdits
    /\ \E i \in 1..Len(edited_df[s]), f \in TrackedSet :
         \E v \in CellValues(f) \ {edited_df[s][i][f]} :
            Interact(s, "edit", [NoInput EXCEPT !.row = i, !.field = f, !.value = v])
    /\ edits' = edits + 1

Save(s) ==
    /\ page[s] = "main"
    /\ \E failing \in SUBSET Codes : Interact(s, "save", [NoInput EXCEPT !.failing = failing])
    /\ UNCHANGED edits

Logout(s) ==
    /\ page[s] = "main"
    /\ Interact(s, "logout", NoInput)
    /\ UNCHANGED edits

\* the browser opens the app anew: a new session with an empty st.session_state
\* runs the script once; the st.cache_data entry belongs to the process and stays
\* (a session that has loaded nothing yet is still in its initial state)
NewSession(s) ==
    /\ session_state[s].has_original
    /\ Commit(s, "open", NoInput, Script([World(s) EXCEPT !.ss = InitSession, !.ed = EmptyDf],
                                "none", NoInput, now))
    /\ UNCHANGED edits

Next ==
    \/ Tick
    \/ \E s \in Sessions : Refresh(s)
    \/ \E s \in Sessions : Login(s)
    \/ \E s \in Sessions : Edit(s)
    \/ \E s \in Sessions : Save(s)
    \/ \E s \in Sessions : Logout(s)
    \/ \E s \in Sessions : NewSession(s)

Spec == Init /\ [][Next]_vars


\* ---------------------------------------------- the diff on arbitrary inputs
\* The diff and write loops as a function of (baseline, edited): the session is
\* logged in with the baseline loaded, and the edited snapshot is drawn from the
\* baseline with at most one extra row whose code the baseline does not have.
DriftRows ==
    {[code |-> "C", name |-> "Chai", available_from |-> af, available_to |-> None,
      allow_negative |-> an] : af \in EditorTimes \cup {None}, an \in BOOLEAN}
LoadedDf == fetch_data(InitStore, "ok").df
EditedInputs ==
    {LoadedDf} \cup {LoadedDf \o <<r>> : r \in DriftRows} \cup {<<r>> \o LoadedDf : r \in DriftRows}

InitDrift ==
    /\ now = 0
    /\ store = InitStore
    /\ cache = [present |-> TRUE, at |-> 0, value |-> LoadedDf]
    /\ session_state = [s \in Sessions |->
          [keys |-> AuthKeys, login_time |-> 0, username |-> "admin",
           has_original |-> TRUE, original_data |-> LoadedDf]]
    /\ edited_df \in [Sessions -> EditedInputs]
    /\ page = [s \in Sessions |-> "main"]
    /\ edits = 0
    /\ last = [sess |-> "s1", click |-> "login",
               creds |-> [username |-> "admin", password |-> "admin1234"],
               runs |-> <<[guard |-> "logged_out", page |-> "login", steps |-> {}, read |-> "none"],
                          [guard |-> "active", page |-> "main", steps |-> {"load"}, read |-> "ok"]>>,
               save |-> NoSave,
               toast |-> Toast("login_ok", {}),
               raised |-> FALSE]

NextDrift ==
    \/ Tick
    \/ \E s \in Sessions : Edit(s)
    \/ \E s \in Sessions : Save(s)

SpecDrift == InitDrift /\ [][NextDrift]_vars

\* ------------------------------------- the loader and the codec on any input
\* The store holds arbitrary values in the tracked columns of its first row: a
\* well-formed time string, null, a missing column value, the empty string or a
\* string that strptime rejects; the operator types arbitrary times.
Absent == [tag |-> "absent"]
CodecTimes == {Time(0, 0, 0), Time(9, 5, 7), Time(23, 59, 59)}
MalformedCells ==
    {Str(<<"2", "4", ":", "0", "0", ":", "0", "0">>),
     Str(<<"0", "9", ":", "0", "0">>),
     Str(<<"0", "9", ":", "0", "0", ":", "0", "0", "+", "0", "0">>)}
MissingCells == {None, Absent}
DbTimeCells ==
    {format_time_for_db(t) : t \in CodecTimes} \cup MissingCells \cup {Str(<<>>)}
        \cup MalformedCells
DbBoolCells == {"true", "false", "null", "absent"}
CodecTriples ==
    {<<af, None, "false">> : af \in DbTimeCells}
        \cup (MissingCells \X MissingCells \X DbBoolCells)
CodecStores ==
    {[InitStore EXCEPT ![1].available_from = c[1], ![1].available_to = c[2],
                       ![1].allow_negative = c[3]] : c \in CodecTriples}

InitCodec ==
    /\ now = 0
    /\ store \in CodecStores
    /\ cache = NoCache
    /\ session_state = [s \in Sessions |-> InitSession]
    /\ edited_df = [s \in Sessions |-> EmptyDf]
    /\ page = [s \in Sessions |-> "login"]
    /\ edits = 0
    /\ last = [sess |-> "s1", click |-> "none", creds |-> NoCreds,
               runs |-> <<[guard |-> "logged_out", page |-> "login", steps |-> {}, read |-> "none"]>>,
               save |-> NoSave, toast |-> NoToast, raised |-> FALSE]

\* a time cell of the editor set to any time of day, or cleared
EditCodec(s) ==
    /\ page[s] = "main"
    /\ edits < MaxCodecEdits
    /\ \E i \in 1..Len(edited_df[s]), f \in {"available_from", "available_to"} :
         \E v \in (CodecTimes \cup {None}) \ {edited_df[s][i][f]} :
            Interact(s, "edit", [NoInput EXCEPT !.row = i, !.field = f, !.value = v])
    /\ edits' = edits + 1

NextCodec ==
    \/ \E s \in Sessions : Login(s)
    \/ \E s \in Sessions : EditCodec(s)
    \/ \E s \in Sessions : Save(s)

SpecCodec == InitCodec /\ [][NextCodec]_vars

\* ------------------------------------------- the store under other writers
\* Another session or process writes a tracked value of a row of the store
\* while this session holds its baseline; the session's clock stands still.
ExternalCells(f) ==
    IF f = "allow_negative" THEN {"true", "false"} ELSE {None, format_time_for_db(T9)}
ExternalWrite ==
    /\ edits < MaxEdits
    /\ \E i \in 1..Len(store), f \in TrackedSet :
         \E v \in ExternalCells(f) \ {store[i][f]} :
            store' = [store EXCEPT ![i][f] = v]
    /\ edits' = edits + 1
    /\ UNCHANGED <<now, cache, session_state, edited_df, page, last>>

NextExternal ==
    \/ ExternalWrite
    \/ \E s \in Sessions : Login(s)
    \/ \E s \in Sessions : Edit(s)
    \/ \E s \in Sessions : Save(s)

SpecExternal == Init /\ [][NextExternal]_vars

\* ------------------------------------------------------------------ claims
S == last.sess
SaveRan == last.click = "save" /\ "diff" \in last.runs[1].steps
OkCalls == {k \in 1..Len(last.save.calls) : last.save.calls[k].ok}
FailedCodes == {last.save.calls[k].code : k \in {j \in 1..Len(last.save.calls) : ~last.save.calls[j].ok}}
SameTracked(b, e) ==
    /\ Len(b) = Len(e)
    /\ \A i \in 1..Len(b) : b[i].code = e[i].code /\ \A f \in TrackedSet : b[i][f] = e[i][f]

\* C1: every update payload of a Save holds exactly the tracked fields whose
\* value differs between the baseline and the edited snapshot; an unchanged
\* tracked field is not in the payload.
C1_PayloadOnlyChangedFields ==
    \A k \in 1..Len(last.save.calls) :
        LET c == last.save.calls[k]
            o == Loc(last.save.baseline, c.code)
            e == Loc(last.save.edited, c.code)
        IN DOMAIN c.payload = {f \in TrackedSet : o[f] # e[f]}

\* C2: in a Save with several change records, every change record whose own
\* update does not fail is applied to the store, also when an earlier one failed.
C2_FailureDoesNotBlock ==
    SaveRan =>
      \A i \in 1..Len(last.save.updates) :
         last.save.updates[i].code \notin last.save.failing =>
            /\ \E k \in OkCalls : last.save.calls[k].code = last.save.updates[i].code
            /\ \A f \in TrackedSet :
                  Loc(store, last.save.updates[i].code)[f] = last.save.updates[i][f]

\* C3: the outcome of a Save reports the number of updates that succeeded and
\* names exactly the codes whose update failed.
C3_PerCodeBreakdown ==
    (SaveRan /\ last.save.updates # <<>>) =>
        /\ last.toast.counts = {Cardinality(OkCalls)}
        /\ last.toast.codes = FailedCodes

\* C4: an access check at a time t with t - login_time < SessionTimeout accepts
\* the session; a check with t - login_time >= SessionTimeout rejects it and
\* deletes the session keys; a check of a logged-out session rejects it.
C4_ExpiryBoundary ==
    [][\A s \in Sessions :
         (now' = now /\ last'.click # "open") =>
            IF "logged_in" \in session_state[s].keys
            THEN IF now - session_state[s].login_time < SessionTimeout
                 THEN last'.runs[1].guard = "active" /\ last'.runs[1].page # "login"
                 ELSE /\ last'.runs[1].guard = "expired"
                      /\ last'.runs[1].page = "login"
                      /\ session_state'[s].keys = {}
                      /\ page'[s] = "login"
            ELSE /\ last'.runs[1].guard = "logged_out"
                 /\ last'.runs[1].page = "login"]_vars
C4_Witness ==
    /\ last.runs[1].guard = "expired"
    /\ session_state[S].keys = {}
    /\ page[S] = "login"

\* C5: a script run executes a reconciliation step (load, diff, write, replace)
\* only if its routing found the session logged in and not expired; a run of a
\* logged-out or expired session renders the login page and changes neither the
\* store nor the baseline.
C5_GuardFirst ==
    [][\A s \in Sessions :
         (now' = now /\ last'.click # "open") =>
            /\ last'.runs[1].steps # {} =>
                  /\ "logged_in" \in session_state[s].keys
                  /\ now - session_state[s].login_time < SessionTimeout
            /\ (Len(last'.runs) = 2 /\ last'.runs[2].steps # {}) =>
                  /\ last'.toast.kind = "login_ok"
                  /\ "logged_in" \in session_state'[s].keys
                  /\ session_state'[s].login_time = now
            /\ ~("logged_in" \in session_state[s].keys
                 /\ now - session_state[s].login_time < SessionTimeout) =>
                  /\ last'.runs[1].page = "login"
                  /\ store' = store
                  /\ last'.save = NoSave
                  /\ last'.toast.kind # "login_ok" =>
                        /\ page'[s] = "login"
                        /\ session_state'[s].original_data = session_state[s].original_data
                        /\ session_state'[s].has_original = session_state[s].has_original]_vars
C5_Witness ==
    /\ last.click = "save"
    /\ last.runs[1].guard = "expired"
    /\ last.runs[1].steps = {}

\* C6: a Save whose edited snapshot equals the baseline in every tracked field,
\* None included, builds no update, issues no store call and reports no changes.
C6_SelfDiffEmpty ==
    (SaveRan /\ SameTracked(last.save.baseline, last.save.edited)) =>
        /\ last.save.updates = <<>>
        /\ last.save.calls = <<>>
        /\ last.toast.kind = "nochange"
        /\ "write" \notin last.runs[1].steps
C6_Witness ==
    /\ SaveRan
    /\ SameTracked(last.save.baseline, last.save.edited)
    /\ \E i \in 1..Len(last.save.baseline) : last.save.baseline[i].available_to = None

\* C7: after a Save in which every update succeeded the baseline is the edited
\* snapshot, and a Save that follows it with no edit in between builds no
\* update and leaves the store as it is.
C7_BaselineReplaced ==
    [][/\ last'.toast.kind = "saved" =>
            /\ session_state'[last'.sess].original_data = last'.save.edited
            /\ edited_df'[last'.sess] = last'.save.edited
       /\ (last.toast.kind = "saved" /\ last'.click = "save" /\ last' # last) =>
            /\ last'.save.updates = <<>>
            /\ last'.save.calls = <<>>
            /\ store' = store]_vars
C7_Witness ==
    /\ SaveRan
    /\ last.toast.kind = "nochange"
    /\ session_state[S].original_data # LoadedDf
    /\ session_state[S].original_data = edited_df[S]

\* C8: a baseline that a session loads from fetch_data holds the values the
\* store has at that moment, also when the store was written since the cache
\* entry was filled.
C8_LoadedBaselineFresh ==
    \A k \in 1..Len(last.runs) :
        (last.runs[k].read = "hit" /\ session_state[S].original_data # EmptyDf) =>
            session_state[S].original_data = fetch_data(store, "ok").df

\* C9: a Save whose edited snapshot has a code that the baseline lacks ends in
\* a drift notification for that code, with no exception leaving the script and
\* no store call for that code.
DriftCodes == {last.save.edited[i].code : i \in 1..Len(last.save.edited)}
                 \ {last.save.baseline[i].code : i \in 1..Len(last.save.baseline)}
C10_FetchNeverRaises ==
    /\ ~last.raised
    /\ \A k \in 1..Len(last.runs) :
          last.runs[k].read \in {"error", "nocode"} =>
             /\ session_state[S].has_original
             /\ session_state[S].original_data = EmptyDf
             /\ last.runs[k].page = "nodata"
             /\ last.runs[k].steps = {"load"}
             /\ last.save = NoSave
    /\ (session_state[S].has_original /\ session_state[S].original_data = EmptyDf) =>
          /\ page[S] \in {"nodata", "login"}
          /\ \A k \in 1..Len(last.runs) :
                last.runs[k].steps \cap {"diff", "write", "replace"} = {}
C10_Witness ==
    /\ last.runs[Len(last.runs)].read = "error"
    /\ page[S] = "nodata"
    /\ session_state[S].original_data = EmptyDf


\* C11: a load that reads the store keeps every fetched record, in order; a
\* tracked attribute that is null or absent in the source is None (times) or
\* FALSE (allow_negative) in the snapshot, and allow_negative is always a boolean.
TimeFields == {"available_from", "available_to"}
LoadedFromStore == \E k \in 1..Len(last.runs) : last.runs[k].read = "ok"
C11_LoadKeepsEveryRecord ==
    LoadedFromStore =>
        /\ Len(session_state[S].original_data) = Len(store)
        /\ \A i \in 1..Len(store) :
              /\ session_state[S].original_data[i].code = store[i].code
              /\ session_state[S].original_data[i].allow_negative \in BOOLEAN
              /\ \A f \in TimeFields :
                    store[i][f] \in MissingCells => session_state[S].original_data[i][f] = None
              /\ store[i].allow_negative \in {"null", "absent"} =>
                    session_state[S].original_data[i].allow_negative = FALSE
C11_Witness ==
    /\ LoadedFromStore
    /\ store[1].available_from = Absent
    /\ store[1].available_to = None
    /\ store[1].allow_negative = "null"
    /\ session_state[S].original_data[1].code = "A"
    /\ session_state[S].original_data[1].allow_negative = FALSE

\* C12: what Save wrote for a time cell reads back as the edited time; an
\* edited None is written as null, not as an empty string; a stored value that
\* is null, absent, empty or malformed loads as None and nothing is raised.
C12_CodecRoundTrip ==
    /\ \A k \in OkCalls : \A f \in TimeFields :
          /\ format_time_for_editor(Loc(store, last.save.calls[k].code)[f])
                = Loc(last.save.edited, last.save.calls[k].code)[f]
          /\ Loc(last.save.edited, last.save.calls[k].code)[f] = None =>
                last.save.calls[k].payload[f] = None
    /\ LoadedFromStore =>
          /\ ~last.raised
          /\ \A i \in 1..Len(store) : \A f \in TimeFields :
                store[i][f] \in MissingCells \cup {Str(<<>>)} \cup MalformedCells =>
                   session_state[S].original_data[i][f] = None
C12_Witness ==
    /\ last.toast.kind = "saved"
    /\ \E k \in OkCalls : \E f \in TimeFields :
          /\ Loc(last.save.edited, last.save.calls[k].code)[f] = Time(23, 59, 59)
          /\ Loc(last.save.baseline, last.save.calls[k].code)[f] = None
          /\ Loc(last.save.stored, last.save.calls[k].code)[f] \in MalformedCells


\* C13: a store update carries no key other than the three tracked fields and
\* changes only the row of its code; the code and the non-tracked attributes
\* of every row of the store stay as they are in every step.
C13_NonTrackedUntouched ==
    [][/\ Len(store') = Len(store)
       /\ \A k \in 1..Len(last'.save.calls) :
             DOMAIN last'.save.calls[k].payload \subseteq TrackedSet
       /\ \A i \in 1..Len(store) :
             /\ DOMAIN store'[i] = DOMAIN store[i]
             /\ \A f \in DOMAIN store[i] \ TrackedSet : store'[i][f] = store[i][f]
             /\ store'[i] # store[i] =>
                   \E k \in 1..Len(last'.save.calls) :
                      /\ last'.save.calls[k].ok
                      /\ last'.save.calls[k].code = store[i].code]_vars
C13_Witness ==
    /\ last.toast.kind = "saved"
    /\ store[1] # InitStore[1]
    /\ store[1].name = InitStore[1].name
    /\ store[2] = InitStore[2]


\* C14: the session keys appear only in a Login click with the right username
\* and password, which sets all of them with login_time = now; a Login click
\* with other credentials leaves no key; a Logout click leaves no key and the
\* login page; from there the login page stays until a successful login.
RightCreds == [username |-> "admin", password |-> "admin1234"]
C14_SessionLifecycle ==
    [][\A s \in Sessions :
         /\ (last'.click = "login" /\ last'.creds # RightCreds) =>
               /\ session_state'[s].keys = {}
               /\ page'[s] = "login"
               /\ last'.toast.kind = "login_bad"
         /\ last'.click = "logout" =>
               /\ session_state'[s].keys = {}
               /\ page'[s] = "login"
         /\ (now' = now /\ last'.click # "open" /\ session_state[s].keys = {}) =>
               IF last'.click = "login" /\ last'.creds = RightCreds
               THEN /\ session_state'[s].keys = AuthKeys
                    /\ session_state'[s].login_time = now
                    /\ session_state'[s].username = "admin"
                    /\ last'.toast.kind = "login_ok"
                    /\ page'[s] # "login"
               ELSE /\ session_state'[s].keys = {}
                    /\ page'[s] = "login"]_vars
C14_Witness ==
    /\ last.click = "login"
    /\ last.toast.kind = "login_ok"
    /\ session_state[S].keys = AuthKeys
    /\ Len(last.runs) = 2
    /\ last.runs[2].read = "none"
    /\ session_state[S].login_time = now


\* C15: the change records of a Save are, one each and in the order of the
\* edited snapshot, the records with a tracked field that differs from the
\* baseline record of the same code; the store calls follow that order.
Pos(df, c) == CHOOSE i \in 1..Len(df) : df[i].code = c
ChangedRows ==
    {i \in 1..Len(last.save.edited) :
        \E f \in TrackedSet :
           last.save.edited[i][f] # Loc(last.save.baseline, last.save.edited[i].code)[f]}
C15_ChangeRecordsInOrder ==
    SaveRan =>
        /\ Len(last.save.updates) = Cardinality(ChangedRows)
        /\ {last.save.updates[j].code : j \in 1..Len(last.save.updates)}
              = {last.save.edited[i].code : i \in ChangedRows}
        /\ \A j1, j2 \in 1..Len(last.save.updates) :
              j1 < j2 => Pos(last.save.edited, last.save.updates[j1].code)
                            < Pos(last.save.edited, last.save.updates[j2].code)
        /\ Len(last.save.calls) <= Len(last.save.updates)
        /\ \A k \in 1..Len(last.save.calls) :
              last.save.calls[k].code = last.save.updates[k].code
C15_Witness ==
    /\ SaveRan
    /\ Len(last.save.updates) = 2
    /\ Len(last.save.calls) = 2
    /\ last.save.calls[2].ok


\* C16: a Save never notices what the store holds: it raises nothing, reports
\* an error only for a store call that failed, reports success when no call
\* fails, and every call that succeeds leaves its payload in the row of the
\* store, whatever another actor had written there since the baseline was loaded.
C16_NoConcurrencyControl ==
    [][(last' # last /\ last'.click = "save" /\ "diff" \in last'.runs[1].steps) =>
          /\ ~last'.raised
          /\ last'.save.stored = store
          /\ last'.toast.kind = "error" =>
                \E k \in 1..Len(last'.save.calls) : ~last'.save.calls[k].ok
          /\ (last'.save.updates # <<>> /\ last'.save.failing = {}) =>
                last'.toast.kind = "saved"
          /\ \A k \in 1..Len(last'.save.calls) :
                last'.save.calls[k].ok =>
                   \A f \in TrackedSet :
                      Loc(store', last'.save.calls[k].code)[f] = last'.save.calls[k].payload[f]]_vars
\* a lost update: the store held a value the session never loaded, and the Save replaced it
C16_Witness ==
    /\ last.toast.kind = "saved"
    /\ \E k \in OkCalls : \E f \in TrackedSet :
          /\ Row(Loc(last.save.stored, last.save.calls[k].code))[f]
                # Loc(last.save.baseline, last.save.calls[k].code)[f]
          /\ Loc(last.save.stored, last.save.calls[k].code)[f] # last.save.calls[k].payload[f]
          /\ Loc(store, last.save.calls[k].code)[f] = last.save.calls[k].payload[f]


\* C17: a Save in which a store call raises leaves the baseline and the editor
\* as they were, keeps in the store what the calls before the failing one wrote
\* and touches no other row; a Save that follows it with no edit in between
\* builds the same change records again.
C17_FailedSaveKeepsBaseline ==
    [][\A s \in Sessions :
         /\ (last' # last /\ last'.click = "save" /\ last'.toast.kind = "error") =>
               /\ session_state'[s].original_data = session_state[s].original_data
               /\ session_state'[s].original_data = last'.save.baseline
               /\ edited_df'[s] = last'.save.edited
               /\ "replace" \notin last'.runs[1].steps
               /\ \A k \in 1..Len(last'.save.calls) :
                     IF last'.save.calls[k].ok
                     THEN \A f \in TrackedSet :
                             Loc(store', last'.save.calls[k].code)[f]
                                = last'.save.calls[k].payload[f]
                     ELSE Loc(store', last'.save.calls[k].code)
                             = Loc(store, last'.save.calls[k].code)
         /\ (last.click = "save" /\ last.toast.kind = "error"
             /\ last'.click = "save" /\ "diff" \in last'.runs[1].steps) =>
               /\ last'.save.updates = last.save.updates
               /\ last'.save.baseline = last.save.baseline]_vars
C17_Witness ==
    /\ last.click = "save"
    /\ last.toast.kind = "error"
    /\ Len(last.save.updates) = 2
    /\ Len(last.save.calls) = 2
    /\ last.save.calls[1].ok
    /\ ~last.save.calls[2].ok
    /\ Loc(store, last.save.calls[1].code) # Loc(last.save.stored, last.save.calls[1].code)
    /\ session_state[S].original_data = last.save.baseline
    /\ session_state[S].original_data # edited_df[S]


\* C18: in every state the session holds all of logged_in, login_time and
\* username or none of them; none after a Logout click and after an expiry.
C18_KeysAllOrNone ==
    \A s \in Sessions :
        /\ session_state[s].keys \in {{}, AuthKeys}
        /\ (last.click = "logout" \/ last.runs[1].guard = "expired") => session_state[s].keys = {}
        /\ session_state[s].keys = {} => session_state[s].username = ""
C18_Witness ==
    /\ last.click = "logout"
    /\ last.runs[1].guard = "active"
    /\ session_state[S].keys = {}
    /\ session_state[S].username = ""

\* C19: once original_data is in the session state, no script run of that
\* session loads it again, whatever the load gave; only line 179 changes it,
\* so a logout, an expiry and a new login leave it as it was.
C19_BaselineLoadedOnce ==
    [][\A s \in Sessions :
         (now' = now /\ last'.click # "open" /\ session_state[s].has_original) =>
            /\ session_state'[s].has_original
            /\ cache' = cache
            /\ \A k \in 1..Len(last'.runs) :
                  "load" \notin last'.runs[k].steps /\ last'.runs[k].read = "none"
            /\ \/ session_state'[s].original_data = session_state[s].original_data
               \/ /\ "replace" \in last'.runs[1].steps
                  /\ session_state'[s].original_data = edited_df'[s]]_vars
C19_Witness ==
    /\ last.click = "login"
    /\ last.toast.kind = "login_ok"
    /\ Len(last.runs) = 2
    /\ last.runs[2].steps = {}
    /\ session_state[S].has_original
    /\ session_state[S].original_data # LoadedDf
    /\ session_state[S].original_data # EmptyDf

====
